---- MODULE Spec2Model ----
(***************************************************************************)
(* Model of the sjm-school-app pages and access rules:                     *)
(*   - AdminLoginForm / StudentLoginForm (handleSubmit, onSubmit),         *)
(*   - TeacherDashboardPage (loadDashboardData and the render),            *)
(*   - StudentAttendancePage (fetchStudentDataAndAttendance, the render),  *)
(*   - RegisterAdminPage (form action and the effect on its result),       *)
(*   - the two Firestore rulesets of firestore.rules (A: lines 1-183,      *)
(*     B: lines 187-308).                                                  *)
(* Texts are sequences of tokens; String.includes is modelled as           *)
(* "is a contiguous subsequence of".  A nullable value is a sequence of    *)
(* length 0 (null) or 1.                                                   *)
(***************************************************************************)
EXTENDS Integers, Sequences, FiniteSets, TLC

\* ------------------------------------------------------------------------
\* Generic helpers
\* ------------------------------------------------------------------------
Null == <<>>
Some(x) == <<x>>

\* String.prototype.includes on token sequences
Includes(hay, needle) ==
    \E i \in 0..(Len(hay) - Len(needle)) :
        \A j \in 1..Len(needle) : hay[i + j] = needle[j]

\* String.prototype.toLowerCase, token by token
LowerToken(t) ==
    CASE t = "Invalid" -> "invalid"
      [] t = "Email"   -> "email"
      [] t = "Failed"  -> "failed"
      [] t = "Amy@x.io" -> "amy@x.io"
      [] OTHER -> t
ToLowerCase(s) == [i \in 1..Len(s) |-> LowerToken(s[i])]

\* ------------------------------------------------------------------------
\* Login forms (AdminLoginForm, StudentLoginForm)
\* ------------------------------------------------------------------------
VARIABLES
    adminPc,            \* position of AdminLoginForm.onSubmit
    adminLoginError,    \* useState loginError of AdminLoginForm
    adminData,          \* last signInWithPassword response seen by the admin submit
    adminSignedOut,     \* supabase.auth.signOut was called in the current admin submit
    adminPushed,        \* router.push target of the current admin submit (Null: none)
    studentPc,          \* position of StudentLoginForm.onSubmit
    studentLoginError,  \* useState loginError of StudentLoginForm
    studentData,        \* last signInWithPassword response seen by the student submit
    studentLookup,      \* last students lookup response seen by the student submit
    studentSignedOut,   \* supabase.auth.signOut was called in the current student submit
    studentPushed,      \* router.push target of the current student submit
    signInRequest,      \* the credentials last sent to signInWithPassword
    providerSession,    \* the auth provider's session (Null or the user id)
    localStorage,       \* browser local storage: the flag keys holding "true" (the ids
                        \* it holds are teacherUidStored and studentIdStored)
    toasts,             \* number of "Login Successful" toasts raised (capped)
    fieldErrors         \* per login form, the fields showing a validation message

VARIABLES
    rulesetLive,        \* which ruleset of firestore.rules is deployed: "A" or "B"
    rulesDb,            \* documents of the collections whose rules read document data
    lastReq,            \* the last request the rules decided (Null: none yet)
    lastOld,            \* `resource` of that request: the document before it (Null: none)
    lastAllowed         \* the decision on that request

VARIABLES
    isMounted,              \* useRef isMounted.current
    teacherProfile,         \* useState teacherProfile (Null or a profile)
    studentsByClass,        \* useState studentsByClass: class name -> list of students
    announcements,          \* useState announcements
    isLoading,              \* useState isLoading
    isLoadingAnnouncements, \* useState isLoadingAnnouncements
    announcementsError,     \* useState announcementsError (Null or a text)
    error,                  \* useState error (Null or a text)
    dashPc,                 \* position of loadDashboardData
    dashRoute,              \* target of router.push (Null: no redirect)
    teacherUidStored,       \* localStorage TEACHER_LOGGED_IN_UID_KEY (Null or a uid)
    studentsTable,          \* rows of the backend table `students`
    profileResult,          \* { data: profileData, error: profileError } of the lookup
    allAssignedStudents,    \* local allAssignedStudents (response of the students query)
    issued,                 \* backend queries issued by the load, in order
    caught,                 \* the error caught by the load's catch (Null: none)
    announcementData,       \* local announcementData (response of the announcements query)
    lateSetters,            \* state setters invoked while isMounted.current was false
    returned                \* backend queries whose await has resolved or rejected, in order

VARIABLES
    attMounted,         \* useRef isMounted.current of the attendance page
    loggedInStudent,    \* useState loggedInStudent (Null or a student)
    attendanceHistory,  \* useState attendanceHistory
    attIsLoading,       \* useState isLoading of the attendance page
    attError,           \* useState error of the attendance page (Null or a text)
    attPc,              \* position of fetchStudentDataAndAttendance
    attRoute,           \* where the attendance page navigated to, and how (Null: nowhere)
    studentIdStored,    \* localStorage CURRENTLY_LOGGED_IN_STUDENT_ID (Null or an id)
    studentDocSnap,     \* local studentDocSnap (Null until getDoc resolves)
    attIssued           \* backend calls issued by the attendance load, in order

VARIABLES
    regState,           \* useActionState state: the last result of registerAdminAction
    regFields,          \* the contents of the registration form's fields
    regToasts,          \* the toasts the registration page raised, in order
    regPending,         \* useFormStatus pending: the action is running
    regFormData         \* the form data registerAdminAction was last invoked with

rulesVars == <<rulesetLive, rulesDb, lastReq, lastOld, lastAllowed>>

dashVars == <<isMounted, teacherProfile, studentsByClass, announcements, isLoading,
              isLoadingAnnouncements, announcementsError, error, dashPc, dashRoute,
              teacherUidStored, studentsTable, profileResult, allAssignedStudents,
              issued, caught, announcementData, lateSetters, returned>>

attVars == <<attMounted, loggedInStudent, attendanceHistory, attIsLoading, attError,
             attPc, attRoute, studentIdStored, studentDocSnap, attIssued>>

loginVars == <<adminPc, adminLoginError, adminData, adminSignedOut, adminPushed,
               studentPc, studentLoginError, studentData, studentLookup,
               studentSignedOut, studentPushed, signInRequest, providerSession,
               localStorage, toasts, fieldErrors>>

regVars == <<regState, regFields, regToasts, regPending, regFormData>>

\* what each part never touches
notLogin == <<rulesVars, dashVars, attVars, regVars>>
notRules == <<loginVars, dashVars, attVars, regVars>>
notDash == <<loginVars, rulesVars, attVars, regVars>>
notAtt == <<loginVars, rulesVars, dashVars, regVars>>
notReg == <<loginVars, rulesVars, dashVars, attVars>>

ADMIN_LOGGED_IN_KEY == "admin_logged_in"

MaxToasts == 2

\* form values that pass the zod schema (handleSubmit only calls onSubmit with these)
Emails == {<<"Amy@x.io">>, <<"amy@x.io">>, <<"bob@x.io">>}
Passwords == {<<"pw">>}
FormValues == [email : Emails, password : Passwords]

\* what a user may have typed when pressing submit
Blank == " "
RawEmails == Emails \cup {Null, <<"amy">>, <<Blank, "amy@x.io">>, <<"amy@x.io", Blank>>}
RawPasswords == Passwords \cup {Null}
RawFormValues == [email : RawEmails, password : RawPasswords]

\* part_000:26-29, part_001:25-28 : z.string().email() on a text: one word of
\* the shape local@domain, nothing around it
EmailWords == {"Amy@x.io", "amy@x.io", "bob@x.io"}
IsEmail(text) == Len(text) = 1 /\ text[1] \in EmailWords

\* String.trim : drop the blanks at both ends
RECURSIVE Trim(_)
Trim(text) ==
    IF text = <<>> THEN text
    ELSE IF Head(text) = Blank THEN Trim(Tail(text))
    ELSE IF text[Len(text)] = Blank THEN Trim(SubSeq(text, 1, Len(text) - 1))
    ELSE text

\* part_000:28, part_001:27 : z.string().min(1)
MinPassword == 1

\* the fields of the login schema a value violates: email() is checked on the
\* text as typed, trim() runs after it
LoginFieldErrors(values) ==
    {f \in {"email"} : ~IsEmail(values.email)}
    \cup {f \in {"password"} : Len(values.password) < MinPassword}

\* the values the resolver hands to onSubmit
LoginSchemaParse(values) == [email |-> Trim(values.email), password |-> values.password]

\* accounts of the auth provider; role lives in the user's metadata
Users == { [id |-> "u1", role |-> "admin"],
           [id |-> "u2", role |-> "student"],
           [id |-> "u3", role |-> "teacher"] }

\* error.message texts of the auth provider
AuthErrorMessages ==
    { <<"Invalid", "login", "credentials">>,
      <<"Email", "not", "confirmed">>,
      <<"rate", "limit">> }

\* { data: { user, session }, error } as returned by signInWithPassword
SignInResponses ==
    [error : {Null}, user : {Some(u) : u \in Users} \cup {Null}, session : BOOLEAN]
    \cup [error : {Some(m) : m \in AuthErrorMessages}, user : {Null}, session : {FALSE}]

\* exceptions a rejected call can carry (error.message)
ThrownMessages == { <<"Failed", "to", "fetch">>, <<"boom">>, Null }

\* { data, error } of .single(): data is null whenever error is set
SingleResponses ==
    { [data |-> TRUE,  error |-> Null],
      [data |-> FALSE, error |-> Some("PGRST116")],
      [data |-> FALSE, error |-> Some("42501")],
      [data |-> FALSE, error |-> Null] }

\* the provider's session after a sign-in attempt answered with r
SessionAfterSignIn(r) ==
    IF r.error = Null /\ r.user # Null /\ r.session THEN Some(r.user[1].id)
    ELSE providerSession

\* loginError texts
MsgInvalid == <<"Invalid email or password.">>
MsgAdminUnconfirmed == <<"This admin account's email has not been confirmed.">>
MsgStudentUnconfirmed == <<"Your email has not been confirmed.">>
MsgUnexpected(m) == <<"An unexpected error occurred:">> \o m
MsgMissing == <<"Could not log in. User or session data missing.">>
MsgConnect == <<"Could not connect to the server.">>
MsgTryAgain == <<"An unexpected error occurred. Please try again.">>
MsgVerify == <<"Could not verify student profile after login.">>
MsgNoProfile == <<"No student profile associated with this login account.">>

\* part_000:62-69 / part_001:56-66 : the message chosen for an auth error
AuthErrorText(m, unconfirmed) ==
    IF Includes(ToLowerCase(m), <<"invalid", "login", "credentials">>) THEN MsgInvalid
    ELSE IF Includes(ToLowerCase(m), <<"email", "not", "confirmed">>) THEN unconfirmed
    ELSE MsgUnexpected(m)

\* part_000:94-98 : the message chosen in the admin form's catch
AdminCatchText(m) ==
    IF m # Null /\ Includes(ToLowerCase(m), <<"failed", "to", "fetch">>) THEN MsgConnect
    ELSE MsgTryAgain

\* part_001:104-108 : the message chosen in the student form's catch
StudentCatchText(m) ==
    IF m # Null /\ Includes(ToLowerCase(m), <<"failed", "to", "fetch">>) THEN MsgConnect
    ELSE MsgUnexpected(IF m # Null THEN m ELSE <<"Unknown error">>)

\* part_000:76 : the condition under which the admin form proceeds
AdminLoginAccepted_RoleChecked(r) ==
    r.user # Null /\ r.session /\ r.user[1].role = "admin"
AdminLoginAccepted(r) == r.user # Null /\ r.session

\* part_001:70 : the condition under which the student form looks the profile up
StudentAuthAccepted(r) == r.user # Null /\ r.session

\* part_001:77-88 : the lookup lets the login through
StudentProfileVerified_NoRowCheck(p) ==
    ~(p.error # Null /\ p.error # Some("PGRST116"))
StudentProfileVerified(p) ==
    /\ ~(p.error # Null /\ p.error # Some("PGRST116"))
    /\ p.data

InitLogin ==
    /\ adminPc = "idle" /\ adminLoginError = Null /\ adminData = Null
    /\ adminSignedOut = FALSE /\ adminPushed = Null
    /\ studentPc = "idle" /\ studentLoginError = Null /\ studentData = Null
    /\ studentLookup = Null /\ studentSignedOut = FALSE /\ studentPushed = Null
    /\ signInRequest = Null /\ providerSession = Null
    /\ localStorage = {} /\ toasts = 0
    /\ fieldErrors = [f \in {"admin", "student"} |-> {}]

adminFormVars == <<adminPc, adminLoginError, adminData, adminSignedOut, adminPushed>>
studentFormVars == <<studentPc, studentLoginError, studentData, studentLookup,
                     studentSignedOut, studentPushed>>

\* ---- AdminLoginForm.onSubmit (part_000:51-100) ----

\* lines 52-58: clear the error, lower-case the email, call signInWithPassword
AdminOnSubmit(values) ==
    /\ adminPc \in {"idle", "done"} /\ studentPc \in {"idle", "done"}
    /\ adminLoginError' = Null
    /\ adminData' = Null /\ adminSignedOut' = FALSE /\ adminPushed' = Null
    /\ signInRequest' = Some([email |-> ToLowerCase(values.email),
                              password |-> values.password])
    /\ adminPc' = "signIn"
    /\ UNCHANGED <<studentFormVars, providerSession, localStorage, toasts>>
    /\ UNCHANGED notLogin

\* part_000:105 : form.handleSubmit(onSubmit) validates, then calls onSubmit or
\* shows the field messages
AdminHandleSubmit(raw) ==
    /\ fieldErrors' = [fieldErrors EXCEPT !["admin"] = LoginFieldErrors(raw)]
    /\ IF LoginFieldErrors(raw) = {}
       THEN AdminOnSubmit(LoginSchemaParse(raw))
       ELSE /\ adminPc \in {"idle", "done"} /\ studentPc \in {"idle", "done"}
            /\ UNCHANGED <<adminFormVars, studentFormVars, signInRequest,
                           providerSession, localStorage, toasts>>
            /\ UNCHANGED notLogin

\* lines 60-91: the sign-in call resolves with r
AdminSignInReturns(r) ==
    /\ adminPc = "signIn"
    /\ adminData' = Some(r)
    /\ adminPc' = "done"
    /\ IF r.error # Null
       THEN /\ adminSignedOut' = TRUE
            /\ providerSession' = Null
            /\ adminLoginError' = AuthErrorText(r.error[1], MsgAdminUnconfirmed)
            /\ UNCHANGED <<adminPushed, localStorage, toasts>>
       ELSE IF AdminLoginAccepted(r)
       THEN /\ localStorage' = localStorage \cup {ADMIN_LOGGED_IN_KEY}
            /\ toasts' = IF toasts < MaxToasts THEN toasts + 1 ELSE toasts
            /\ adminPushed' = Some("/admin/dashboard")
            /\ providerSession' = SessionAfterSignIn(r)
            /\ UNCHANGED <<adminSignedOut, adminLoginError>>
       ELSE /\ adminSignedOut' = TRUE
            /\ providerSession' = Null
            /\ adminLoginError' = MsgMissing
            /\ UNCHANGED <<adminPushed, localStorage, toasts>>
    /\ UNCHANGED <<studentFormVars, signInRequest>>
    /\ UNCHANGED <<fieldErrors, notLogin>>

\* lines 92-99: the sign-in call rejects with an exception carrying message m
AdminSignInThrows_RemovesFlag(m) ==
    /\ adminPc = "signIn"
    /\ adminPc' = "done"
    /\ adminSignedOut' = TRUE
    /\ providerSession' = Null
    /\ adminLoginError' = AdminCatchText(m)
    /\ localStorage' = localStorage \ {ADMIN_LOGGED_IN_KEY}
    /\ UNCHANGED <<adminData, adminPushed, studentFormVars, signInRequest, toasts>>
    /\ UNCHANGED <<fieldErrors, notLogin>>
AdminSignInThrows(m) ==
    /\ adminPc = "signIn"
    /\ adminPc' = "done"
    /\ adminSignedOut' = TRUE
    /\ providerSession' = Null
    /\ adminLoginError' = AdminCatchText(m)
    /\ UNCHANGED <<adminData, adminPushed, studentFormVars, signInRequest,
                   localStorage, toasts>>
    /\ UNCHANGED <<fieldErrors, notLogin>>

\* ---- StudentLoginForm.onSubmit (part_001:44-110) ----

\* lines 45-52
StudentOnSubmit(values) ==
    /\ studentPc \in {"idle", "done"} /\ adminPc \in {"idle", "done"}
    /\ studentLoginError' = Null
    /\ studentData' = Null /\ studentLookup' = Null
    /\ studentSignedOut' = FALSE /\ studentPushed' = Null
    /\ signInRequest' = Some([email |-> ToLowerCase(values.email),
                              password |-> values.password])
    /\ studentPc' = "signIn"
    /\ UNCHANGED <<adminFormVars, providerSession, localStorage, toasts>>
    /\ UNCHANGED notLogin

\* part_001:121 : form.handleSubmit(onSubmit)
StudentHandleSubmit(raw) ==
    /\ fieldErrors' = [fieldErrors EXCEPT !["student"] = LoginFieldErrors(raw)]
    /\ IF LoginFieldErrors(raw) = {}
       THEN StudentOnSubmit(LoginSchemaParse(raw))
       ELSE /\ adminPc \in {"idle", "done"} /\ studentPc \in {"idle", "done"}
            /\ UNCHANGED <<adminFormVars, studentFormVars, signInRequest,
                           providerSession, localStorage, toasts>>
            /\ UNCHANGED notLogin

\* lines 54-75 and 96-99: the sign-in call resolves with r
StudentSignInReturns(r) ==
    /\ studentPc = "signIn"
    /\ studentData' = Some(r)
    /\ IF r.error # Null
       THEN /\ studentSignedOut' = TRUE
            /\ providerSession' = Null
            /\ studentLoginError' = AuthErrorText(r.error[1], MsgStudentUnconfirmed)
            /\ studentPc' = "done"
       ELSE IF StudentAuthAccepted(r)
       THEN /\ providerSession' = SessionAfterSignIn(r)
            /\ studentPc' = "lookup"
            /\ UNCHANGED <<studentSignedOut, studentLoginError>>
       ELSE /\ studentSignedOut' = TRUE
            /\ providerSession' = Null
            /\ studentLoginError' = MsgMissing
            /\ studentPc' = "done"
    /\ UNCHANGED <<studentLookup, studentPushed, adminFormVars, signInRequest,
                   localStorage, toasts>>
    /\ UNCHANGED <<fieldErrors, notLogin>>

\* lines 77-94: the students lookup resolves with p
StudentLookupReturns_StoresId(p) ==
    /\ studentPc = "lookup"
    /\ studentLookup' = Some(p)
    /\ studentPc' = "done"
    /\ IF StudentProfileVerified(p)
       THEN /\ toasts' = IF toasts < MaxToasts THEN toasts + 1 ELSE toasts
            /\ studentPushed' = Some("/student/dashboard")
            /\ studentIdStored' = Some("S1")
            /\ UNCHANGED <<studentSignedOut, providerSession, studentLoginError>>
       ELSE /\ studentSignedOut' = TRUE
            /\ providerSession' = Null
            /\ studentLoginError' =
                 IF p.error # Null /\ p.error # Some("PGRST116")
                 THEN MsgVerify ELSE MsgNoProfile
            /\ UNCHANGED <<studentPushed, toasts, studentIdStored>>
    /\ UNCHANGED <<studentData, adminFormVars, signInRequest, localStorage>>
    /\ UNCHANGED <<fieldErrors, rulesVars, dashVars, regVars, attMounted,
                   loggedInStudent, attendanceHistory, attIsLoading, attError, attPc,
                   attRoute, studentDocSnap, attIssued>>
StudentLookupReturns_NoSignOut(p) ==
    /\ studentPc = "lookup"
    /\ studentLookup' = Some(p)
    /\ studentPc' = "done"
    /\ IF StudentProfileVerified(p)
       THEN /\ toasts' = IF toasts < MaxToasts THEN toasts + 1 ELSE toasts
            /\ studentPushed' = Some("/student/dashboard")
            /\ UNCHANGED <<studentSignedOut, providerSession, studentLoginError>>
       ELSE /\ studentLoginError' =
                 IF p.error # Null /\ p.error # Some("PGRST116")
                 THEN MsgVerify ELSE MsgNoProfile
            /\ UNCHANGED <<studentSignedOut, providerSession, studentPushed, toasts>>
    /\ UNCHANGED <<studentData, adminFormVars, signInRequest, localStorage>>
    /\ UNCHANGED <<fieldErrors, notLogin>>
StudentLookupReturns(p) ==
    /\ studentPc = "lookup"
    /\ studentLookup' = Some(p)
    /\ studentPc' = "done"
    /\ IF StudentProfileVerified(p)
       THEN /\ toasts' = IF toasts < MaxToasts THEN toasts + 1 ELSE toasts
            /\ studentPushed' = Some("/student/dashboard")
            /\ UNCHANGED <<studentSignedOut, providerSession, studentLoginError>>
       ELSE /\ studentSignedOut' = TRUE
            /\ providerSession' = Null
            /\ studentLoginError' =
                 IF p.error # Null /\ p.error # Some("PGRST116")
                 THEN MsgVerify ELSE MsgNoProfile
            /\ UNCHANGED <<studentPushed, toasts>>
    /\ UNCHANGED <<studentData, adminFormVars, signInRequest, localStorage>>
    /\ UNCHANGED <<fieldErrors, notLogin>>

\* lines 101-109: the sign-in call or the lookup rejects
StudentAwaitThrows(m) ==
    /\ studentPc \in {"signIn", "lookup"}
    /\ studentPc' = "done"
    /\ studentSignedOut' = TRUE
    /\ providerSession' = Null
    /\ studentLoginError' = StudentCatchText(m)
    /\ UNCHANGED <<studentData, studentLookup, studentPushed, adminFormVars,
                   signInRequest, localStorage, toasts>>
    /\ UNCHANGED <<fieldErrors, notLogin>>

NextLogin ==
    \/ \E raw \in RawFormValues : AdminHandleSubmit(raw)
    \/ \E r \in SignInResponses : AdminSignInReturns(r)
    \/ \E m \in ThrownMessages : AdminSignInThrows(m)
    \/ \E raw \in RawFormValues : StudentHandleSubmit(raw)
    \/ \E r \in SignInResponses : StudentSignInReturns(r)
    \/ \E p \in SingleResponses : StudentLookupReturns(p)
    \/ \E m \in ThrownMessages : StudentAwaitThrows(m)


\* ------------------------------------------------------------------------
\* Access rules (firestore.rules): ruleset A (lines 1-183), ruleset B (187-308)
\* ------------------------------------------------------------------------
\* A request: the caller (request.auth), the collection, the operation, the
\* document key and, for create/update, request.resource.data (the document as
\* it would be after the write).  A rule condition whose evaluation fails (a
\* field of a null resource, a missing claim) does not grant: each accessor
\* below is guarded by the definedness of what it reads.

MaxDocs == 1   \* documents held at once by the tracked collections

\* values of the custom claim token.isAdmin: <<type, text>>
ClaimAbsent == <<"none", "">>
ClaimTrue == <<"bool", "true">>
ClaimFalse == <<"bool", "false">>
ClaimStringTrue == <<"string", "true">>

NoAuth == [authed |-> FALSE, uid |-> "", isAdmin |-> ClaimAbsent]
Callers ==
    { NoAuth,
      [authed |-> TRUE, uid |-> "t1", isAdmin |-> ClaimAbsent],
      [authed |-> TRUE, uid |-> "t2", isAdmin |-> ClaimFalse],
      [authed |-> TRUE, uid |-> "a1", isAdmin |-> ClaimTrue],
      [authed |-> TRUE, uid |-> "u1", isAdmin |-> ClaimStringTrue] }

\* documents of the teachers collection (keyed by the teacher's uid)
TeacherDocs ==
    [u \in {"t1", "t2"} |->
        [uid |-> u, assignedClasses |-> IF u = "t1" THEN {"5A"} ELSE {"6B"}]]

\* collections whose teacher identifier field names the authoring teacher
TeacherOwned == {"assignments", "behaviorIncidents", "timetableEntries",
                 "academicResults", "attendanceEntries"}
OwnerField(coll) == IF coll = "attendanceEntries" THEN "markedByTeacherId" ELSE "teacherId"

\* collections whose documents the model holds
Tracked == TeacherOwned \cup {"students"}
\* collections whose rules never read the stored document
Untracked == {"teachers", "teacherSub", "appSettings", "payments", "announcements",
              "assignmentSubmissions", "studentPreferences", "feeStructure"}
Collections == Tracked \cup Untracked

Ops == {"create", "read", "update", "delete"}

DocIds(coll) ==
    CASE coll = "students" -> {"S1"}
      [] coll \in {"teachers", "teacherSub"} -> {"t1"}
      [] OTHER -> {"d1"}

\* request.resource.data candidates
NewDocs(coll) ==
    CASE coll = "students" ->
           {[studentId |-> s, gradeLevel |-> "5A"] : s \in {"S1", "S2"}}
      [] coll = "attendanceEntries" ->
           {[markedByTeacherId |-> t, studentId |-> "S1"] : t \in {"t1", "t2"}}
      [] coll \in TeacherOwned \ {"attendanceEntries"} ->
           {[teacherId |-> t] : t \in {"t1", "t2"}}
      [] coll = "teachers" ->
           {[uid |-> u, assignedClasses |-> {"5A"}] : u \in {"t1", "t9"}}
      [] coll = "payments" -> {[studentId |-> "S1"]}
      [] OTHER -> {[body |-> "x"]}

NoData == [none |-> TRUE]

RequestData(coll, op) == IF op \in {"create", "update"} THEN NewDocs(coll) ELSE {NoData}

Requests ==
    { r \in [auth : Callers, coll : Collections, op : Ops, id : {"S1", "t1", "d1"},
             data : UNION {NewDocs(c) : c \in Collections} \cup {NoData}] :
        /\ r.id \in DocIds(r.coll)
        /\ r.data \in RequestData(r.coll, r.op) }

\* the stored document a request addresses (`resource`), Null when there is none
Resource(req) ==
    IF req.coll \in Tracked
    THEN IF req.id \in DOMAIN rulesDb[req.coll] THEN Some(rulesDb[req.coll][req.id]) ELSE Null
    ELSE IF req.op = "create" THEN Null
    ELSE IF req.coll = "payments" THEN Some([studentId |-> "S1"])
    ELSE IF req.coll = "teachers" THEN Some(TeacherDocs[req.id])
    ELSE Some([body |-> "x"])

\* resource.data[f] == v, false when resource or the field is missing
OldFieldIs(req, f, v) ==
    /\ Resource(req) # Null
    /\ f \in DOMAIN Resource(req)[1]
    /\ Resource(req)[1][f] = v

\* request.resource.data[f] == v, false when request.resource is null (read, delete)
NewFieldIs(req, f, v) ==
    /\ req.op \in {"create", "update"}
    /\ f \in DOMAIN req.data
    /\ req.data[f] = v

\* `x == true` of the rules language: equal type and value
EqTrue_Loose(v) == v[2] = "true"
EqTrue(v) == v = ClaimTrue

\* ---- ruleset A ----
\* firestore.rules:8-14
isAdminA(req) == req.auth.authed /\ EqTrue(req.auth.isAdmin)
\* firestore.rules:16-19
isTeacherA(req) == req.auth.authed /\ req.auth.uid \in DOMAIN TeacherDocs
\* firestore.rules:21-23
isOwnerA(req, userId) == req.auth.authed /\ req.auth.uid = userId

\* firestore.rules:39-40 : assignedClasses.hasAny([resource.data.gradeLevel])
TeacherOfGradeA_AnyTeacher(req) == isTeacherA(req)
TeacherOfGradeA(req) ==
    /\ isTeacherA(req)
    /\ Resource(req) # Null
    /\ "gradeLevel" \in DOMAIN Resource(req)[1]
    /\ Resource(req)[1].gradeLevel \in TeacherDocs[req.auth.uid].assignedClasses

\* firestore.rules:26-180 : the allow statements of each match block, or-ed
AllowA(req) ==
    CASE req.coll = "students" ->
           \/ req.op = "create" /\ isAdminA(req) /\ NewFieldIs(req, "studentId", req.id)
           \/ req.op \in {"read", "update", "delete"} /\ isAdminA(req)
           \/ req.op = "read" /\ TeacherOfGradeA(req)
           \/ req.op = "read" /\ ~req.auth.authed
      [] req.coll = "teachers" ->
           \/ req.op = "create" /\ isAdminA(req) /\ NewFieldIs(req, "uid", req.id)
           \/ req.op \in {"read", "update", "delete"} /\ isAdminA(req)
           \/ req.op \in {"read", "update"} /\ isOwnerA(req, req.id)
      [] req.coll = "teacherSub" ->
           \/ isOwnerA(req, req.id)
           \/ isAdminA(req)
      [] req.coll = "appSettings" ->
           \/ isAdminA(req)
           \/ req.op = "read" /\ (req.auth.authed \/ ~req.auth.authed)
      [] req.coll = "payments" -> isAdminA(req)
      [] req.coll = "announcements" ->
           \/ req.op \in {"create", "update", "delete"} /\ isAdminA(req)
           \/ req.op = "read"
      [] req.coll \in {"assignments", "behaviorIncidents"} ->
           \/ req.op = "create" /\ isTeacherA(req)
                /\ NewFieldIs(req, "teacherId", req.auth.uid)
           \/ req.op \in {"read", "update", "delete"} /\ isTeacherA(req)
                /\ OldFieldIs(req, "teacherId", req.auth.uid)
           \/ req.op \in {"read", "update", "delete"} /\ isAdminA(req)
      [] req.coll = "assignmentSubmissions" ->
           \/ isTeacherA(req)
           \/ isAdminA(req)
      [] req.coll = "attendanceEntries" ->
           \/ req.op \in {"create", "update"} /\ isTeacherA(req)
                /\ NewFieldIs(req, "markedByTeacherId", req.auth.uid)
           \/ req.op \in {"read", "delete"} /\ isTeacherA(req)
                /\ OldFieldIs(req, "markedByTeacherId", req.auth.uid)
           \/ isAdminA(req)
      [] req.coll = "timetableEntries" ->
           \/ req.op \in {"create", "update", "delete"} /\ isTeacherA(req)
                /\ NewFieldIs(req, "teacherId", req.auth.uid)
           \/ req.op = "read" /\ isTeacherA(req)
                /\ OldFieldIs(req, "teacherId", req.auth.uid)
           \/ isAdminA(req)
           \/ req.op = "read" /\ ~req.auth.authed
      [] req.coll = "studentPreferences" -> TRUE
      [] req.coll = "academicResults" ->
           \/ req.op = "create" /\ isTeacherA(req)
                /\ NewFieldIs(req, "teacherId", req.auth.uid)
           \/ req.op \in {"read", "update", "delete"} /\ isTeacherA(req)
                /\ OldFieldIs(req, "teacherId", req.auth.uid)
           \/ isAdminA(req)
           \/ req.op = "read" /\ ~req.auth.authed
      [] OTHER -> FALSE

\* ---- ruleset B ----
\* firestore.rules:194-198
isAdminB_ClaimsChecked(req) == req.auth.authed /\ EqTrue(req.auth.isAdmin)
isAdminB(req) == req.auth.authed
\* firestore.rules:201-203
isTeacherB(req) == req.auth.authed /\ req.auth.uid \in DOMAIN TeacherDocs
\* firestore.rules:206-208
isOwnerB(req, docId) == req.auth.authed /\ req.auth.uid = docId
\* firestore.rules:211-213
isFieldOwner(req, fieldName) ==
    req.auth.authed /\ OldFieldIs(req, fieldName, req.auth.uid)
\* firestore.rules:214-216
isRequestFieldOwner(req, fieldName) ==
    req.auth.authed /\ NewFieldIs(req, fieldName, req.auth.uid)

\* exists(/students/$(resource.data.studentId))
StudentOfResourceExists(req) ==
    /\ Resource(req) # Null
    /\ "studentId" \in DOMAIN Resource(req)[1]
    /\ Resource(req)[1].studentId \in DOMAIN rulesDb["students"]

\* firestore.rules:221-305
AllowB(req) ==
    CASE req.coll = "students" ->
           \/ req.op = "read"
           \/ req.op \in {"create", "update", "delete"} /\ isAdminB(req)
      [] req.coll = "teachers" ->
           \/ req.op = "read"
           \/ req.op = "create" /\ isAdminB(req)
           \/ req.op = "update" /\ (isOwnerB(req, req.id) \/ isAdminB(req))
           \/ req.op = "delete" /\ isAdminB(req)
      [] req.coll = "payments" ->
           \* line 239: the third alternative reads request.resource, null on a read
           \/ req.op = "read" /\
                (\/ isAdminB(req)
                 \/ isTeacherB(req) /\ StudentOfResourceExists(req)
                 \/ ~req.auth.authed
                      /\ NewFieldIs(req, "studentId", "STUDENT_PORTAL_ID_PLACEHOLDER"))
           \/ req.op \in {"create", "update", "delete"} /\ isAdminB(req)
      [] req.coll = "announcements" ->
           \/ req.op = "read"
           \/ req.op \in {"create", "update", "delete"} /\ isAdminB(req)
      [] req.coll \in {"feeStructure", "appSettings"} ->
           \/ req.op = "read"
           \/ req.op \in {"create", "update", "delete"} /\ isAdminB(req)
      [] req.coll = "attendanceEntries" ->
           \* line 276: hasAny is given a string, not a list; that alternative never grants
           \/ req.op = "read" /\
                (\/ isAdminB(req)
                 \/ isTeacherB(req) /\ OldFieldIs(req, "markedByTeacherId", req.auth.uid)
                 \/ ~req.auth.authed /\ OldFieldIs(req, "studentId",
                        "STUDENT_PORTAL_ID_PLACEHOLDER_FOR_STUDENT_READ"))
           \/ req.op \in {"create", "update"} /\ isTeacherB(req)
                /\ isRequestFieldOwner(req, "markedByTeacherId")
           \/ req.op = "delete" /\
                (isAdminB(req) \/ (isTeacherB(req) /\ isFieldOwner(req, "markedByTeacherId")))
      [] req.coll = "assignments" ->
           \/ req.op = "read" /\
                (\/ isAdminB(req) \/ isTeacherB(req)
                 \/ ~req.auth.authed /\ OldFieldIs(req, "classId",
                        "STUDENT_PORTAL_CLASS_ID_PLACEHOLDER"))
           \/ req.op = "create" /\ isTeacherB(req) /\ isRequestFieldOwner(req, "teacherId")
           \/ req.op \in {"update", "delete"} /\ isTeacherB(req)
                /\ isFieldOwner(req, "teacherId")
      [] req.coll = "behaviorIncidents" ->
           \/ req.op = "read" /\
                (\/ isAdminB(req) \/ isTeacherB(req)
                 \/ ~req.auth.authed /\ OldFieldIs(req, "studentId",
                        "STUDENT_PORTAL_ID_PLACEHOLDER_FOR_STUDENT_READ"))
           \/ req.op = "create" /\ isTeacherB(req) /\ isRequestFieldOwner(req, "teacherId")
           \/ req.op \in {"update", "delete"} /\ isTeacherB(req)
                /\ isFieldOwner(req, "teacherId")
      [] req.coll = "timetableEntries" ->
           \/ req.op = "read" /\ isTeacherB(req) /\ isFieldOwner(req, "teacherId")
           \/ req.op = "create" /\ isTeacherB(req) /\ isRequestFieldOwner(req, "teacherId")
           \/ req.op \in {"update", "delete"} /\ isTeacherB(req)
                /\ isFieldOwner(req, "teacherId")
      [] OTHER -> FALSE

Allow(req) == IF rulesetLive = "A" THEN AllowA(req) ELSE AllowB(req)

EmptyColl == [i \in {} |-> NoData]
DocCount == Cardinality({<<c, i>> \in Tracked \X {"S1", "d1"} : i \in DOMAIN rulesDb[c]})

\* the database after an allowed write
Applied(req) ==
    IF req.coll \notin Tracked \/ req.op = "read" THEN rulesDb
    ELSE [rulesDb EXCEPT ![req.coll] =
            IF req.op = "delete"
            THEN [i \in DOMAIN @ \ {req.id} |-> @[i]]
            ELSE [i \in DOMAIN @ \cup {req.id} |-> IF i = req.id THEN req.data ELSE @[i]]]

\* a request the database can receive in its current state: create addresses a
\* missing document, the other operations an existing one
WellFormed(req) ==
    /\ req.coll \in Tracked =>
          IF req.op = "create"
          THEN req.id \notin DOMAIN rulesDb[req.coll] /\ DocCount < MaxDocs
          ELSE req.id \in DOMAIN rulesDb[req.coll]

InitRules ==
    /\ rulesetLive \in {"A", "B"}
    /\ rulesDb = [c \in Tracked |-> EmptyColl]
    /\ lastReq = Null /\ lastOld = Null /\ lastAllowed = FALSE

\* the database decides a request and applies it when allowed
RulesRequest(req) ==
    /\ WellFormed(req)
    /\ lastReq' = Some(req)
    /\ lastOld' = Resource(req)
    /\ LET allowed == Allow(req)
       IN /\ lastAllowed' = allowed
          /\ rulesDb' = IF allowed THEN Applied(req) ELSE rulesDb
    /\ UNCHANGED rulesetLive
    /\ UNCHANGED notRules

\* ------------------------------------------------------------------------
\* Teacher dashboard (src/app/teacher/dashboard/page.tsx)
\* ------------------------------------------------------------------------
MaxClasses == 2         \* longest assigned_classes list
MaxAnnouncements == 6   \* most announcements the backend returns

ClassNames == {"5A", "5B"}

RECURSIVE SeqsUpTo(_, _)
SeqsUpTo(S, n) ==
    IF n = 0 THEN {<<>>}
    ELSE SeqsUpTo(S, n - 1) \cup
         {Append(s, x) : s \in {t \in SeqsUpTo(S, n - 1) : Len(t) = n - 1}, x \in S}

\* values of the column assigned_classes (null behaves as the empty list: line 93)
AssignedLists == SeqsUpTo(ClassNames, MaxClasses)

Range(s) == {s[i] : i \in 1..Len(s)}

\* rows of `students`, in the order the backend returns them
StudentRows ==
    << [student_id_display |-> "s1", grade_level |-> "5A"],
       [student_id_display |-> "s2", grade_level |-> "5B"],
       [student_id_display |-> "s3", grade_level |-> "5A"],
       [student_id_display |-> "s4", grade_level |-> "6C"] >>

\* error objects of the backend: { code, message }
NoRowError == [code |-> "PGRST116",
               message |-> <<"JSON", "object", "requested", ",", "multiple",
                             "(", "or", "no", ")", "rows", "returned">>]
BackendErrors ==
    { NoRowError,
      [code |-> "42P01", message |-> <<"relation", "students", "does", "not", "exist">>],
      [code |-> "42501", message |-> <<"permission", "denied", "for", "profile">>],
      [code |-> "57014", message |-> <<"announcements", "timeout">>],
      [code |-> "XX000", message |-> <<"announcements", "and", "students", "unavailable">>],
      [code |-> "", message |-> Null] }
ThrownErrors == { [code |-> "", message |-> <<"Failed", "to", "fetch">>] }

\* texts of the page
TextNotAuthenticated == <<"Not", "authenticated", ".", "Please", "login", ".">>
TextProfileNotFound ==
    <<"Your", "teacher", "profile", "could", "not", "be", "found", ".",
      "Please", "contact", "an", "administrator", ".">>
TextFailedDashboard == <<"Failed", "to", "load", "dashboard", "data", ":">>
TextFailedAnnouncements == <<"Failed", "to", "load", "announcements", ":">>
TextUnexpected == <<"An", "unexpected", "error", "occurred", ".">>
TextUnknown == <<"An", "unknown", "error", "occurred">>

\* page.tsx:95-98 : select ... from students where grade_level in (classes)
StudentsQuery(classes) ==
    SelectSeq(StudentRows,
              LAMBDA s : s \in studentsTable /\ s.grade_level \in Range(classes))

\* page.tsx:103-106 : one entry per assigned class, holding the students of that class
RECURSIVE GroupLoop(_, _, _, _)
GroupLoop(classes, students, i, acc) ==
    IF i > Len(classes) THEN acc
    ELSE GroupLoop(classes, students, i + 1,
            [k \in DOMAIN acc \cup {classes[i]} |->
                IF k = classes[i]
                THEN SelectSeq(students, LAMBDA s : s.grade_level = classes[i])
                ELSE acc[k]])

GroupByClass_OnlyNonEmpty(classes, students) ==
    [k \in {c \in Range(classes) : \E i \in 1..Len(students) : students[i].grade_level = c}
        |-> SelectSeq(students, LAMBDA s : s.grade_level = k)]
GroupByClass_NoFilter(classes, students) ==
    [k \in Range(classes) |-> students]
GroupByClass(classes, students) ==
    GroupLoop(classes, students, 1, [k \in {} |-> <<>>])

\* page.tsx:128 : e.message || "An unknown error occurred"
ErrorMessageOf(e) == IF e.message # Null THEN e.message ELSE TextUnknown

\* page.tsx:129-135 : which error state a caught error goes to
RouteOf_ProfileFirst(errorMessage) ==
    IF Includes(errorMessage, <<"profile">>) \/ Includes(errorMessage, <<"students">>)
    THEN "dashboard"
    ELSE IF Includes(errorMessage, <<"announcements">>) THEN "announcements"
    ELSE "unexpected"
RouteOf(errorMessage) ==
    IF Includes(errorMessage, <<"announcements">>) THEN "announcements"
    ELSE IF Includes(errorMessage, <<"profile">>) \/ Includes(errorMessage, <<"students">>)
    THEN "dashboard"
    ELSE "unexpected"

\* page.tsx:132,134 : the functional updates of setError
ErrorAfterCatch(prev, errorMessage) ==
    CASE RouteOf(errorMessage) = "dashboard" ->
           IF prev # Null THEN prev \o TextFailedDashboard \o errorMessage
           ELSE TextFailedDashboard \o errorMessage
      [] RouteOf(errorMessage) = "unexpected" ->
           IF prev # Null THEN prev \o TextUnexpected ELSE TextUnexpected
      [] OTHER -> prev

\* page.tsx:130
AnnouncementsErrorAfterCatch(prev, errorMessage) ==
    IF RouteOf(errorMessage) = "announcements"
    THEN TextFailedAnnouncements \o errorMessage
    ELSE prev

\* page.tsx:155-206 : which view the page renders
View_ProfileFirst ==
    IF isLoading THEN "loading"
    ELSE IF teacherProfile = Null THEN "profileNotLoaded"
    ELSE IF error # Null /\ Includes(error, <<"profile", "could", "not", "be", "found">>)
    THEN "errorCard"
    ELSE "dashboard"
View ==
    IF isLoading THEN "loading"
    ELSE IF error # Null /\ (teacherProfile = Null
                              \/ Includes(error, <<"profile", "could", "not", "be", "found">>))
    THEN "errorCard"
    ELSE IF teacherProfile = Null /\ ~isLoading THEN "profileNotLoaded"
    ELSE "dashboard"

\* page.tsx:174-178 and 199-201 : the "Go to Login" link is rendered
DashLoginLinkShown ==
    \/ View = "errorCard" /\ Includes(error, <<"Not", "authenticated">>)
    \/ View = "profileNotLoaded"

\* page.tsx:164-174 : the error card shows the text of `error`
ErrorShown == View = "errorCard"

\* page.tsx:309-316 : the announcements card shows the text of `announcementsError`
AnnouncementsErrorShown ==
    View = "dashboard" /\ ~isLoadingAnnouncements /\ announcementsError # Null

\* page.tsx:320 : announcements.slice(0, 5)
SliceEnd == 5
\* page.tsx:334 : announcements.length > 5
ViewAllThreshold == 5

\* page.tsx:309-332 : the announcement cards the dashboard renders
AnnouncementCards_NoSlice ==
    IF View = "dashboard" /\ ~isLoadingAnnouncements /\ announcementsError = Null
    THEN announcements
    ELSE <<>>
AnnouncementCards ==
    IF View = "dashboard" /\ ~isLoadingAnnouncements /\ announcementsError = Null
       /\ Len(announcements) # 0
    THEN SubSeq(announcements, 1,
                IF Len(announcements) < SliceEnd THEN Len(announcements) ELSE SliceEnd)
    ELSE <<>>

\* page.tsx:334-340 : the "View All Announcements" affordance is rendered
ViewAllShown == View = "dashboard" /\ Len(announcements) > ViewAllThreshold

InitDash ==
    /\ isMounted = TRUE
    /\ teacherProfile = Null
    /\ studentsByClass = [k \in {} |-> <<>>]
    /\ announcements = <<>>
    /\ isLoading = TRUE
    /\ isLoadingAnnouncements = TRUE
    /\ announcementsError = Null
    /\ error = Null
    /\ dashPc = "init"
    /\ dashRoute = Null
    /\ teacherUidStored \in {Null, Some("uid-t1")}
    /\ studentsTable \in SUBSET Range(StudentRows)
    /\ profileResult = Null
    /\ allAssignedStudents = Null
    /\ issued = <<>>
    /\ caught = Null
    /\ announcementData = Null
    /\ lateSetters = {}
    /\ returned = <<>>

dashFixed == <<teacherUidStored, studentsTable>>

\* page.tsx:139-145 : no teacher uid in local storage
NotAuthenticated_NoPush ==
    /\ error' = TextNotAuthenticated
    /\ isLoading' = FALSE
    /\ dashPc' = "done"
    /\ UNCHANGED <<dashRoute, issued>>
NotAuthenticated ==
    /\ error' = TextNotAuthenticated
    /\ dashRoute' = Some("/auth/teacher/login")
    /\ isLoading' = FALSE
    /\ dashPc' = "done"
    /\ UNCHANGED issued

\* page.tsx:67-79 and 139-145 : the effect runs loadDashboardData up to its first await
LoadDashboardData_Concurrent ==
    /\ dashPc = "init" /\ isMounted
    /\ IF teacherUidStored # Null
       THEN /\ isLoading' = TRUE
            /\ error' = Null
            /\ issued' = issued \o <<"teachers", "school_announcements">>
            /\ dashPc' = "profile"
            /\ UNCHANGED dashRoute
       ELSE NotAuthenticated
    /\ UNCHANGED <<isMounted, teacherProfile, studentsByClass, announcements,
                   isLoadingAnnouncements, announcementsError, profileResult,
                   allAssignedStudents, caught, announcementData, lateSetters,
                   returned, dashFixed>>
    /\ UNCHANGED notDash
LoadDashboardData ==
    /\ dashPc = "init" /\ isMounted
    /\ IF teacherUidStored # Null
       THEN /\ isLoading' = TRUE
            /\ error' = Null
            /\ issued' = Append(issued, "teachers")
            /\ dashPc' = "profile"
            /\ UNCHANGED dashRoute
       ELSE NotAuthenticated
    /\ UNCHANGED <<isMounted, teacherProfile, studentsByClass, announcements,
                   isLoadingAnnouncements, announcementsError, profileResult,
                   allAssignedStudents, caught, announcementData, lateSetters,
                   returned, dashFixed>>
    /\ UNCHANGED notDash

\* page.tsx:126-138 and 145 : catch, finally and the end of the load
DashCatch_KeepsLoading(e) ==
    /\ caught' = Some(e)
    /\ announcementsError' =
         IF isMounted THEN AnnouncementsErrorAfterCatch(announcementsError, ErrorMessageOf(e))
         ELSE announcementsError
    /\ error' = IF isMounted THEN ErrorAfterCatch(error, ErrorMessageOf(e)) ELSE error
    /\ isLoadingAnnouncements' = IF isMounted THEN FALSE ELSE isLoadingAnnouncements
    /\ isLoading' = isLoading
    /\ dashPc' = "done"
    /\ UNCHANGED lateSetters
DashCatch(e) ==
    /\ caught' = Some(e)
    /\ announcementsError' =
         IF isMounted THEN AnnouncementsErrorAfterCatch(announcementsError, ErrorMessageOf(e))
         ELSE announcementsError
    /\ error' = IF isMounted THEN ErrorAfterCatch(error, ErrorMessageOf(e)) ELSE error
    /\ isLoadingAnnouncements' = IF isMounted THEN FALSE ELSE isLoadingAnnouncements
    /\ isLoading' = IF isMounted THEN FALSE ELSE isLoading
    /\ dashPc' = "done"
    /\ UNCHANGED lateSetters

\* page.tsx:115-121 : the announcements query is issued
IssueAnnouncements ==
    /\ isLoadingAnnouncements' = IF isMounted THEN TRUE ELSE isLoadingAnnouncements
    /\ announcementsError' = Null
    /\ lateSetters' = IF isMounted THEN lateSetters
                      ELSE lateSetters \cup {"setAnnouncementsError"}
    /\ issued' = Append(issued, "school_announcements")
    /\ dashPc' = "announcements"

\* responses of the profile lookup (.single())
ProfileResponses ==
    [data : {Some([auth_user_id |-> "uid-t1", assigned_classes |-> l]) : l \in AssignedLists},
     error : {Null}]
    \cup [data : {Null}, error : {Some(e) : e \in BackendErrors}]
    \cup {[data |-> Null, error |-> Null]}

\* page.tsx:88-113 : the profile lookup resolves with r
ProfileReturns(r) ==
    /\ dashPc = "profile"
    /\ profileResult' = Some(r)
    /\ returned' = Append(returned, "teachers")
    /\ IF r.error # Null
       THEN /\ DashCatch(r.error[1])
            /\ UNCHANGED <<teacherProfile, studentsByClass, issued>>
       ELSE IF r.data # Null
       THEN /\ teacherProfile' = IF isMounted THEN r.data ELSE teacherProfile
            /\ IF Len(r.data[1].assigned_classes) > 0
               THEN /\ issued' = Append(issued, "students")
                    /\ dashPc' = "students"
                    /\ UNCHANGED <<studentsByClass, isLoadingAnnouncements,
                                   announcementsError, lateSetters>>
               ELSE /\ studentsByClass' =
                         IF isMounted THEN [k \in {} |-> <<>>] ELSE studentsByClass
                    /\ IssueAnnouncements
            /\ UNCHANGED <<error, caught, isLoading>>
       ELSE /\ error' = IF isMounted THEN TextProfileNotFound ELSE error
            /\ IssueAnnouncements
            /\ UNCHANGED <<teacherProfile, studentsByClass, caught, isLoading>>
    /\ UNCHANGED <<isMounted, announcements, dashRoute, allAssignedStudents,
                   announcementData, dashFixed>>
    /\ UNCHANGED notDash

\* responses of the students query for the loaded profile
StudentsResponses ==
    IF profileResult = Null \/ profileResult[1].data = Null THEN {}
    ELSE {[data |-> Some(StudentsQuery(profileResult[1].data[1].assigned_classes)),
           error |-> Null]}
         \cup [data : {Null}, error : {Some(e) : e \in BackendErrors}]

\* page.tsx:100-107 and 115-121 : the students query resolves with r
StudentsReturns(r) ==
    /\ dashPc = "students"
    /\ returned' = Append(returned, "students")
    /\ IF r.error # Null
       THEN /\ DashCatch(r.error[1])
            /\ UNCHANGED <<studentsByClass, issued, allAssignedStudents>>
       ELSE /\ allAssignedStudents' = r.data
            /\ studentsByClass' =
                 IF isMounted
                 THEN GroupByClass(profileResult[1].data[1].assigned_classes, r.data[1])
                 ELSE studentsByClass
            /\ IssueAnnouncements
            /\ UNCHANGED <<error, caught, isLoading>>
    /\ UNCHANGED <<isMounted, teacherProfile, announcements, dashRoute, profileResult,
                   announcementData, dashFixed>>
    /\ UNCHANGED notDash

\* responses of the announcements query: n announcements, newest first
AnnouncementsResponses ==
    {[data |-> Some([i \in 1..n |-> i]), error |-> Null] : n \in 0..MaxAnnouncements}
    \cup [data : {Null}, error : {Some(e) : e \in BackendErrors}]

\* page.tsx:123-124, 136-138, 145 : the announcements query resolves with r
AnnouncementsReturns(r) ==
    /\ dashPc = "announcements"
    /\ returned' = Append(returned, "school_announcements")
    /\ IF r.error # Null
       THEN /\ DashCatch(r.error[1])
            /\ UNCHANGED <<announcements, announcementData>>
       ELSE /\ announcementData' = r.data
            /\ announcements' = IF isMounted THEN r.data[1] ELSE announcements
            /\ isLoadingAnnouncements' = IF isMounted THEN FALSE ELSE isLoadingAnnouncements
            /\ isLoading' = IF isMounted THEN FALSE ELSE isLoading
            /\ dashPc' = "done"
            /\ UNCHANGED <<error, announcementsError, caught, lateSetters>>
    /\ UNCHANGED <<isMounted, teacherProfile, studentsByClass, dashRoute, profileResult,
                   allAssignedStudents, issued, dashFixed>>
    /\ UNCHANGED notDash

\* page.tsx:126 : an awaited backend call rejects with e
DashAwaitThrows(e) ==
    /\ dashPc \in {"profile", "students", "announcements"}
    /\ returned' = Append(returned, issued[Len(issued)])
    /\ DashCatch(e)
    /\ UNCHANGED <<isMounted, teacherProfile, studentsByClass, announcements, dashRoute,
                   profileResult, allAssignedStudents, issued, announcementData,
                   dashFixed>>
    /\ UNCHANGED notDash

\* page.tsx:150-152 : the effect's cleanup
Unmount ==
    /\ isMounted
    /\ dashPc # "init"
    /\ isMounted' = FALSE
    /\ UNCHANGED <<teacherProfile, studentsByClass, announcements, isLoading,
                   isLoadingAnnouncements, announcementsError, error, dashPc, dashRoute,
                   profileResult, allAssignedStudents, issued, caught, announcementData,
                   lateSetters, returned, dashFixed>>
    /\ UNCHANGED notDash

\* ------------------------------------------------------------------------
\* Student attendance page (src/app/student/attendance/page.tsx)
\* ------------------------------------------------------------------------
MaxEntries == 2   \* most attendance entries the backend returns

StudentIds == {"S1", "S2"}

\* students/{id} as getDoc returns it: a snapshot that exists or not
StudentSnaps ==
    {[exists |-> FALSE, data |-> Null]}
    \cup {[exists |-> TRUE, data |-> Some([fullName |-> <<"Ama">>, gradeLevel |-> g])] :
             g \in {"5A", "5B"}}

\* attendanceEntries of one student, ordered by date descending
AttendanceStatuses == {"present", "absent", "late"}
AttendanceHistories ==
    {[i \in 1..Len(l) |-> [id |-> i, status |-> l[i]]] :
        l \in SeqsUpTo(AttendanceStatuses, MaxEntries)}

\* messages of the errors getDoc / getDocs reject with
AttThrownMessages ==
    { <<"Missing", "or", "insufficient", "permissions", ".">>,
      <<"Failed", "to", "get", "document", "because", "the", "client", "is", "offline", ".">> }

\* texts of the page
TextNotIdentified ==
    <<"Student", "not", "identified", ".", "Please", "log", "in", "to", "view",
      "attendance", ".">>
TextStudentProfileNotFound ==
    <<"Student", "profile", "not", "found", ".", "Please", "contact",
      "administration", ".">>
TextFailedToLoad == <<"Failed", "to", "load", "data", ":">>

\* attendance/page.tsx:116-152 : which view the page renders
AttView_MissingBeforeError ==
    IF attIsLoading THEN "loading"
    ELSE IF loggedInStudent = Null THEN "studentNotFound"
    ELSE IF attError # Null THEN "errorCard"
    ELSE "history"
AttView ==
    IF attIsLoading THEN "loading"
    ELSE IF attError # Null THEN "errorCard"
    ELSE IF loggedInStudent = Null THEN "studentNotFound"
    ELSE "history"

\* attendance/page.tsx:133-135 and 147 : the "Go to Login" link is rendered
LoginLinkShown_OneWord ==
    \/ AttView = "errorCard" /\ Includes(attError, <<"Please", "login">>)
    \/ AttView = "studentNotFound"
LoginLinkShown ==
    \/ AttView = "errorCard" /\ Includes(attError, <<"Please", "log", "in">>)
    \/ AttView = "studentNotFound"

InitAtt ==
    /\ attMounted = TRUE
    /\ loggedInStudent = Null
    /\ attendanceHistory = <<>>
    /\ attIsLoading = TRUE
    /\ attError = Null
    /\ attPc = "init"
    /\ attRoute = Null
    /\ studentIdStored \in {Null} \cup {Some(i) : i \in StudentIds}
    /\ studentDocSnap = Null
    /\ attIssued = <<>>

\* attendance/page.tsx:51-75 : the effect runs the load up to its first await
FetchStudentDataAndAttendance ==
    /\ attPc = "init" /\ attMounted
    /\ IF studentIdStored = Null
       THEN /\ attError' = TextNotIdentified
            /\ attIsLoading' = FALSE
            /\ attPc' = "done"
            /\ UNCHANGED attIssued
       ELSE /\ attIsLoading' = TRUE
            /\ attError' = Null
            /\ attIssued' = Append(attIssued, "students")
            /\ attPc' = "profile"
    /\ UNCHANGED <<attMounted, loggedInStudent, attendanceHistory, attRoute,
                   studentIdStored, studentDocSnap>>
    /\ UNCHANGED notAtt

\* attendance/page.tsx:75-93 and 104-106 : getDoc resolves with snap
StudentDocReturns_NoStop(snap) ==
    /\ attPc = "profile"
    /\ studentDocSnap' = Some(snap)
    /\ attError' = IF ~snap.exists /\ attMounted THEN TextStudentProfileNotFound
                   ELSE attError
    /\ attIsLoading' = IF ~snap.exists /\ attMounted THEN FALSE ELSE attIsLoading
    /\ loggedInStudent' =
         IF snap.exists /\ attMounted
         THEN Some([studentId |-> studentIdStored[1],
                    gradeLevel |-> snap.data[1].gradeLevel])
         ELSE loggedInStudent
    /\ attIssued' = Append(attIssued, "attendanceEntries")
    /\ attPc' = "attendance"
    /\ UNCHANGED <<attMounted, attendanceHistory, attRoute, studentIdStored>>
    /\ UNCHANGED notAtt
StudentDocReturns(snap) ==
    /\ attPc = "profile"
    /\ studentDocSnap' = Some(snap)
    /\ IF ~snap.exists
       THEN /\ attError' = IF attMounted THEN TextStudentProfileNotFound ELSE attError
            /\ attIsLoading' = IF attMounted THEN FALSE ELSE attIsLoading
            /\ attPc' = "done"
            /\ UNCHANGED <<loggedInStudent, attIssued>>
       ELSE /\ loggedInStudent' =
                 IF attMounted
                 THEN Some([studentId |-> studentIdStored[1],
                            gradeLevel |-> snap.data[1].gradeLevel])
                 ELSE loggedInStudent
            /\ attIssued' = Append(attIssued, "attendanceEntries")
            /\ attPc' = "attendance"
            /\ UNCHANGED <<attError, attIsLoading>>
    /\ UNCHANGED <<attMounted, attendanceHistory, attRoute, studentIdStored>>
    /\ UNCHANGED notAtt

\* attendance/page.tsx:93-99 and 104-106 : getDocs resolves with the entries h
AttendanceReturns(h) ==
    /\ attPc = "attendance"
    /\ attendanceHistory' = IF attMounted THEN h ELSE attendanceHistory
    /\ attIsLoading' = IF attMounted THEN FALSE ELSE attIsLoading
    /\ attPc' = "done"
    /\ UNCHANGED <<attMounted, loggedInStudent, attError, attRoute, studentIdStored,
                   studentDocSnap, attIssued>>
    /\ UNCHANGED notAtt

\* attendance/page.tsx:101-106 : getDoc or getDocs rejects with message m
AttAwaitThrows(m) ==
    /\ attPc \in {"profile", "attendance"}
    /\ attError' = IF attMounted THEN TextFailedToLoad \o m ELSE attError
    /\ attIsLoading' = IF attMounted THEN FALSE ELSE attIsLoading
    /\ attPc' = "done"
    /\ UNCHANGED <<attMounted, loggedInStudent, attendanceHistory, attRoute,
                   studentIdStored, studentDocSnap, attIssued>>
    /\ UNCHANGED notAtt

\* attendance/page.tsx:111-113 : the effect's cleanup
AttUnmount ==
    /\ attMounted
    /\ attPc # "init"
    /\ attMounted' = FALSE
    /\ UNCHANGED <<loggedInStudent, attendanceHistory, attIsLoading, attError, attPc,
                   attRoute, studentIdStored, studentDocSnap, attIssued>>
    /\ UNCHANGED notAtt

\* attendance/page.tsx:133-135 and 147 : the user follows the "Go to Login" link
FollowLoginLink ==
    /\ attMounted /\ LoginLinkShown
    /\ attRoute' = Some([to |-> "/auth/student/login", by |-> "link"])
    /\ attMounted' = FALSE
    /\ UNCHANGED <<loggedInStudent, attendanceHistory, attIsLoading, attError, attPc,
                   studentIdStored, studentDocSnap, attIssued>>
    /\ UNCHANGED notAtt

NextAtt ==
    \/ FetchStudentDataAndAttendance
    \/ \E snap \in StudentSnaps : StudentDocReturns(snap)
    \/ \E h \in AttendanceHistories : AttendanceReturns(h)
    \/ \E m \in AttThrownMessages : AttAwaitThrows(m)
    \/ AttUnmount
    \/ FollowLoginLink

\* ------------------------------------------------------------------------
\* Admin registration page (src/app/admin/register-admin/page.tsx)
\* ------------------------------------------------------------------------
MaxRegToasts == 2   \* toasts raised before the page is left

\* register-admin/page.tsx:26 : min(3); a full name is a sequence of characters
MinFullName == 3
FullNames == {Null, <<"J", "o">>, <<"J", "o", "e">>}
RegValues == [fullName : FullNames, email : {Null, <<"amy">>, <<"amy@x.io">>}]

\* register-admin/page.tsx:61-64 : defaultValues
RegDefaults == [fullName |-> Null, email |-> Null]

\* register-admin/page.tsx:25-28 : the fields of formSchema a value violates
RegFieldErrors(values) ==
    {f \in {"fullName"} : Len(values.fullName) < MinFullName}
    \cup {f \in {"email"} : ~IsEmail(values.email)}

\* register-admin/page.tsx:30-35 : ActionResponse (success, message)
ActionMessages == {Null, <<"Invitation", "sent", ".">>, <<"Email", "already", "registered", ".">>}
ActionResponses == [success : BOOLEAN, message : ActionMessages]

\* register-admin/page.tsx:74 and 83 : toast durations
SuccessDuration == 9000
FailureDuration == 12000

\* register-admin/page.tsx:71-75 and 79-84 : the toasts of the effect
SuccessToast(message) ==
    [title |-> "Admin Registration Initiated", description |-> message,
     variant |-> "default", duration |-> SuccessDuration]
FailureToast(message) ==
    [title |-> "Registration Failed", description |-> message,
     variant |-> "destructive", duration |-> FailureDuration]

InitReg ==
    /\ regState = [success |-> FALSE, message |-> Null]
    /\ regFields = RegDefaults
    /\ regToasts = <<>>
    /\ regPending = FALSE
    /\ regFormData = Null

\* register-admin/page.tsx:103-129 : the user edits the fields
RegTypeFields(values) ==
    /\ ~regPending
    /\ regFields # values
    /\ regFields' = values
    /\ UNCHANGED <<regState, regToasts, regPending, regFormData>>
    /\ UNCHANGED notReg

\* register-admin/page.tsx:58 and 101 : <form action={formAction}> is submitted;
\* the form data goes to registerAdminAction as it stands
RegSubmit ==
    /\ ~regPending
    /\ Len(regToasts) < MaxRegToasts
    /\ regFormData' = Some(regFields)
    /\ regPending' = TRUE
    /\ UNCHANGED <<regState, regFields, regToasts>>
    /\ UNCHANGED notReg

\* register-admin/page.tsx:68-87 : the effect on a new action state
RegEffect_ResetAlways(result) ==
    /\ regToasts' = IF result.message = Null THEN regToasts
                    ELSE IF result.success
                    THEN Append(regToasts, SuccessToast(result.message))
                    ELSE Append(regToasts, FailureToast(result.message))
    /\ regFields' = IF result.message # Null THEN RegDefaults ELSE regFields
RegEffect(result) ==
    IF result.message # Null
    THEN IF result.success
         THEN /\ regToasts' = Append(regToasts, SuccessToast(result.message))
              /\ regFields' = RegDefaults
         ELSE /\ regToasts' = Append(regToasts, FailureToast(result.message))
              /\ UNCHANGED regFields
    ELSE UNCHANGED <<regToasts, regFields>>

\* register-admin/page.tsx:58 and 68-87 : registerAdminAction resolves with result,
\* the state changes and the effect runs
RegActionReturns(result) ==
    /\ regPending
    /\ regPending' = FALSE
    /\ regState' = result
    /\ RegEffect(result)
    /\ UNCHANGED regFormData
    /\ UNCHANGED notReg

NextReg ==
    \/ \E v \in RegValues : RegTypeFields(v)
    \/ RegSubmit
    \/ \E result \in ActionResponses : RegActionReturns(result)

\* ------------------------------------------------------------------------
\* Specifications
\* ------------------------------------------------------------------------
vars == <<loginVars, rulesVars, dashVars, attVars, regVars>>

Init == InitLogin /\ InitRules /\ InitDash /\ InitAtt /\ InitReg

\* one part runs at a time: the others stay in one initial state
InitLoginOnly ==
    /\ Init /\ rulesetLive = "A" /\ teacherUidStored = Null /\ studentsTable = {}
    /\ studentIdStored = Null
InitRulesOnly ==
    /\ Init /\ teacherUidStored = Null /\ studentsTable = {}
    /\ studentIdStored = Null
InitDashOnly ==
    /\ Init /\ rulesetLive = "A"
    /\ studentIdStored = Null
InitAttOnly ==
    /\ Init /\ rulesetLive = "A" /\ teacherUidStored = Null /\ studentsTable = {}
\* a student logs in, is sent to the student portal and opens the attendance page
InitJourney ==
    /\ Init /\ rulesetLive = "A" /\ teacherUidStored = Null /\ studentsTable = {}
\* the browser shows the teacher dashboard or the student attendance page
InitPages ==
    /\ Init /\ rulesetLive = "A"
InitRegOnly ==
    /\ Init /\ rulesetLive = "A" /\ teacherUidStored = Null /\ studentsTable = {}
    /\ studentIdStored = Null

NextRules == \E req \in Requests : RulesRequest(req)

NextDash ==
    \/ LoadDashboardData
    \/ \E r \in ProfileResponses : ProfileReturns(r)
    \/ \E r \in StudentsResponses : StudentsReturns(r)
    \/ \E r \in AnnouncementsResponses : AnnouncementsReturns(r)
    \/ \E e \in ThrownErrors : DashAwaitThrows(e)
    \/ Unmount

\* part_001:94 and attendance/page.tsx:51-114 : the login form is left through
\* router.push("/student/dashboard"); the attendance page is opened after it
NextJourney ==
    \/ /\ attPc = "init"
       /\ \/ \E raw \in RawFormValues : StudentHandleSubmit(raw)
          \/ \E r \in SignInResponses : StudentSignInReturns(r)
          \/ \E p \in SingleResponses : StudentLookupReturns(p)
          \/ \E m \in ThrownMessages : StudentAwaitThrows(m)
    \/ /\ studentPushed = Some("/student/dashboard")
       /\ NextAtt

\* dashboard page.tsx:82-121 : an awaited query resolves or rejects
DashCallReturns ==
    \/ \E r \in ProfileResponses : ProfileReturns(r)
    \/ \E r \in StudentsResponses : StudentsReturns(r)
    \/ \E r \in AnnouncementsResponses : AnnouncementsReturns(r)
    \/ \E e \in ThrownErrors : DashAwaitThrows(e)

\* attendance/page.tsx:75-106 : an awaited getDoc / getDocs resolves or rejects
AttCallReturns ==
    \/ \E snap \in StudentSnaps : StudentDocReturns(snap)
    \/ \E h \in AttendanceHistories : AttendanceReturns(h)
    \/ \E m \in AttThrownMessages : AttAwaitThrows(m)

\* one page is on screen at a time: the page whose effect ran first stays
NextPages ==
    \/ attPc = "init" /\ NextDash
    \/ dashPc = "init" /\ NextAtt

\* React runs the effect of the mounted page, and every call that was issued
\* returns; nothing forces the page to be left
FairPages ==
    /\ WF_vars(attPc = "init" /\ LoadDashboardData)
    /\ WF_vars(dashPc = "init" /\ FetchStudentDataAndAttendance)
    /\ WF_vars(attPc = "init" /\ DashCallReturns)
    /\ WF_vars(dashPc = "init" /\ AttCallReturns)

SpecLogin == InitLoginOnly /\ [][NextLogin]_vars
SpecRules == InitRulesOnly /\ [][NextRules]_vars
SpecDash == InitDashOnly /\ [][NextDash]_vars
SpecAtt == InitAttOnly /\ [][NextAtt]_vars
SpecReg == InitRegOnly /\ [][NextReg]_vars
SpecJourney == InitJourney /\ [][NextJourney]_vars
SpecPagesFair == InitPages /\ [][NextPages]_vars /\ FairPages

\* ------------------------------------------------------------------------
\* Claims
\* ------------------------------------------------------------------------
SignInSucceeded(d) ==
    d # Null /\ d[1].error = Null /\ d[1].user # Null /\ d[1].session

\* C1: the student form navigates to /student/dashboard only when the sign-in
\* returned no error with a user and a session and the students lookup returned a
\* profile row; on every other path of a finished submit there is no navigation
\* and signOut has been called.
C1_StudentNavigationNeedsProfile ==
    /\ studentPushed # Null =>
          /\ studentPushed = Some("/student/dashboard")
          /\ SignInSucceeded(studentData)
          /\ studentLookup # Null /\ studentLookup[1].data
    /\ (studentPc = "done"
          /\ ~(SignInSucceeded(studentData) /\ studentLookup # Null /\ studentLookup[1].data))
          => (studentPushed = Null /\ studentSignedOut)

C1_Witness ==
    /\ studentPc = "done"
    /\ SignInSucceeded(studentData)
    /\ studentLookup = Some([data |-> FALSE, error |-> Some("PGRST116")])
    /\ studentPushed = Null /\ studentSignedOut

\* C2: whenever the admin sign-in returns no error with a user and a session, the
\* form sets the admin-logged-in flag and navigates to /admin/dashboard, whatever
\* the role of the account.
C2_AdminFormDoesNotCheckRole ==
    (adminPc = "done" /\ SignInSucceeded(adminData)) =>
        /\ ADMIN_LOGGED_IN_KEY \in localStorage
        /\ adminPushed = Some("/admin/dashboard")
        /\ adminLoginError = Null
        /\ ~adminSignedOut

C2_Witness ==
    /\ adminPc = "done" /\ SignInSucceeded(adminData)
    /\ adminData[1].user[1].role # "admin"
    /\ adminPushed = Some("/admin/dashboard")
    /\ ADMIN_LOGGED_IN_KEY \in localStorage

\* the operations ruleset A grants through isAdmin() and through nothing else
AdminOnlyA ==
    ({"students", "announcements", "appSettings"} \X {"create", "update", "delete"})
    \cup ({"teachers"} \X {"create", "delete"})
    \cup ({"payments"} \X Ops)

\* C3: under ruleset A a request that is unauthenticated, or whose isAdmin claim
\* is missing, false or the string "true", does not satisfy isAdmin() and is
\* denied every operation that only isAdmin() grants.
C3_IsAdminNeedsBooleanClaim ==
    (rulesetLive = "A" /\ lastReq # Null) =>
        LET req == lastReq[1] IN
        ~(req.auth.authed /\ req.auth.isAdmin = <<"bool", "true">>) =>
            /\ ~isAdminA(req)
            /\ <<req.coll, req.op>> \in AdminOnlyA => ~lastAllowed

C3_Witness ==
    /\ rulesetLive = "A" /\ lastReq # Null
    /\ lastReq[1].auth.authed
    /\ lastReq[1].auth.isAdmin = <<"string", "true">>
    /\ <<lastReq[1].coll, lastReq[1].op>> \in AdminOnlyA
    /\ ~lastAllowed

\* C4: under either ruleset a create on students/{key} is rejected for every
\* caller when the submitted studentId differs from the key.
C4_StudentCreateNeedsMatchingId ==
    (/\ lastReq # Null
     /\ lastReq[1].coll = "students"
     /\ lastReq[1].op = "create"
     /\ lastReq[1].data.studentId # lastReq[1].id)
        => ~lastAllowed

\* C5: under ruleset A an update or delete of an existing teacher-authored record
\* is permitted only to an administrator or to the teacher named in the existing
\* record.
C5_OnlyOwnerOrAdminMutates ==
    (/\ rulesetLive = "A"
     /\ lastReq # Null
     /\ lastReq[1].coll \in TeacherOwned
     /\ lastReq[1].op \in {"update", "delete"}
     /\ lastAllowed)
        => \/ lastReq[1].auth.authed /\ lastReq[1].auth.isAdmin = <<"bool", "true">>
           \/ /\ lastOld # Null
              /\ lastOld[1][OwnerField(lastReq[1].coll)] = lastReq[1].auth.uid

LoadedClasses == teacherProfile[1].assigned_classes

\* the students query of this load was not needed or returned without error
RosterLoaded ==
    /\ teacherProfile # Null
    /\ Len(LoadedClasses) > 0 => allAssignedStudents # Null

\* C6 as stated: once the load has finished, the mapping has exactly N keys for a
\* profile with N assigned classes.
C6_ExactlyNKeys ==
    (dashPc = "done" /\ isMounted /\ teacherProfile # Null) =>
        Cardinality(DOMAIN studentsByClass) = Len(LoadedClasses)

\* C6 amended: once the load has finished with the page mounted and the students
\* query (when issued) answered without error, the mapping has one key for each
\* distinct assigned class, each present even when its list is empty.
C6_OneKeyPerAssignedClass ==
    (dashPc = "done" /\ isMounted /\ RosterLoaded) =>
        DOMAIN studentsByClass = Range(LoadedClasses)

C6_Witness ==
    /\ dashPc = "done" /\ isMounted /\ RosterLoaded
    /\ LoadedClasses = <<"5A", "5B">>
    /\ DOMAIN studentsByClass = {"5A", "5B"}
    /\ studentsByClass["5B"] = <<>>
    /\ studentsByClass["5A"] # <<>>

\* C7: every student returned by the roster query is listed under the key equal
\* to the student's grade_level and under no other key.
C7_StudentUnderOwnClassOnly ==
    (allAssignedStudents # Null /\ isMounted) =>
        \A i \in 1..Len(allAssignedStudents[1]) :
            LET s == allAssignedStudents[1][i] IN
            /\ s.grade_level \in DOMAIN studentsByClass
            /\ \A k \in DOMAIN studentsByClass :
                  (\E j \in 1..Len(studentsByClass[k]) : studentsByClass[k][j] = s)
                      <=> (k = s.grade_level)

C7_Witness ==
    /\ allAssignedStudents # Null /\ isMounted
    /\ DOMAIN studentsByClass = {"5A", "5B"}
    /\ \E i \in 1..Len(allAssignedStudents[1]) :
          allAssignedStudents[1][i].student_id_display = "s1"
    /\ \E j \in 1..Len(studentsByClass["5A"]) :
          studentsByClass["5A"][j].student_id_display = "s1"
    /\ \A j \in 1..Len(studentsByClass["5B"]) :
          studentsByClass["5B"][j].student_id_display # "s1"

MentionsAnnouncements(m) == Includes(m, <<"announcements">>)
MentionsProfileOrStudents(m) == Includes(m, <<"profile">>) \/ Includes(m, <<"students">>)

\* C8 as stated: a caught error mentioning "announcements" only sets the
\* announcements error, and a caught error mentioning "profile" or "students"
\* only sets the profile/students error, for every error text.
C8_RoutingForEveryText ==
    [][(caught = Null /\ caught' # Null) =>
          /\ MentionsAnnouncements(ErrorMessageOf(caught'[1])) => error' = error
          /\ MentionsProfileOrStudents(ErrorMessageOf(caught'[1])) =>
                announcementsError' = announcementsError]_vars

\* C8 amended: a caught error mentioning "announcements" sets the announcements
\* error and leaves the profile/students error alone; a caught error mentioning
\* "profile" or "students" and not "announcements" sets the profile/students
\* error and leaves the announcements error alone.
C8_AnnouncementsTakePrecedence ==
    [][(caught = Null /\ caught' # Null) =>
          /\ MentionsAnnouncements(ErrorMessageOf(caught'[1])) =>
                /\ error' = error
                /\ isMounted => announcementsError' =
                                   TextFailedAnnouncements \o ErrorMessageOf(caught'[1])
          /\ (MentionsProfileOrStudents(ErrorMessageOf(caught'[1]))
                /\ ~MentionsAnnouncements(ErrorMessageOf(caught'[1]))) =>
                /\ announcementsError' = announcementsError
                /\ isMounted => Includes(error', TextFailedDashboard)]_vars

C8_Witness ==
    /\ caught # Null /\ isMounted
    /\ MentionsAnnouncements(caught[1].message)
    /\ MentionsProfileOrStudents(caught[1].message)
    /\ announcementsError # Null
    /\ error = Null

LastIssued == issued[Len(issued)]

\* C9: a failure of the profile lookup or of the students query does not keep the
\* announcements from being fetched in that load, and a failure of the
\* announcements fetch does not keep the profile and roster from being shown.
C9_SectionsFailIndependently ==
    (dashPc = "done" /\ isMounted /\ caught # Null) =>
        /\ LastIssued \in {"teachers", "students"} =>
              \E i \in 1..Len(issued) : issued[i] = "school_announcements"
        /\ (LastIssued = "school_announcements" /\ teacherProfile # Null) =>
              View = "dashboard"

ProfileHasNoRow ==
    /\ profileResult # Null
    /\ profileResult[1].data = Null
    /\ profileResult[1].error = Null \/ profileResult[1].error[1].code = "PGRST116"

\* C10: when the profile lookup finds no row, the page sets the error "Your
\* teacher profile could not be found..." and stops: no students or announcements
\* query is issued in that load and there is no redirect.
C10_NoRowStopsTheLoad ==
    (ProfileHasNoRow /\ isMounted) =>
        /\ error = TextProfileNotFound
        /\ issued = <<"teachers">>
        /\ dashRoute = Null

\* C11: on the teacher dashboard, when no teacher auth id is in local storage,
\* the load sets the error "Not authenticated. Please login.", redirects to
\* /auth/teacher/login and issues no backend query.
C11_AbsentUidRedirectsWithoutQuery ==
    teacherUidStored = Null
    => /\ issued = <<>>
       /\ dashPc # "init" => /\ error = TextNotAuthenticated
                             /\ dashRoute = Some("/auth/teacher/login")
                             /\ dashPc = "done"

C11_Witness ==
    /\ teacherUidStored = Null /\ dashPc = "done"
    /\ error = TextNotAuthenticated /\ dashRoute # Null

\* C12: on the teacher dashboard, whatever the interleaving of unmount with the
\* completion of an in-flight backend call, no state setter is invoked after the
\* component has unmounted.
C12_NoSetterAfterUnmount == lateSetters = {}

C14_AbsentIdSettlesInErrorCard ==
    studentIdStored = Null
    => /\ attIssued = <<>>
       /\ attRoute # Null => attRoute[1].by = "link"
       /\ attPc # "init" => /\ attPc = "done"
                            /\ attError = TextNotIdentified
                            /\ AttView = "errorCard"
                            /\ LoginLinkShown

C14_Witness ==
    /\ studentIdStored = Null /\ attPc = "done" /\ attMounted
    /\ attError = TextNotIdentified /\ AttView = "errorCard" /\ attRoute = Null

ProfileDocMissing == studentDocSnap # Null /\ ~studentDocSnap[1].exists

\* C15: on the student attendance page, when the student profile document does
\* not exist, the load stops: the attendanceEntries query is never issued, the
\* attendance history stays empty and, on the mounted page, the error is
\* "Student profile not found. ..." and loading has ended.
C15_MissingProfileStopsTheLoad ==
    ProfileDocMissing
    => /\ attPc = "done"
       /\ attIssued = <<"students">>
       /\ attendanceHistory = <<>>
       /\ attMounted => attError = TextStudentProfileNotFound /\ ~attIsLoading

C15_Witness ==
    /\ ProfileDocMissing /\ attMounted /\ attPc = "done"
    /\ attError = TextStudentProfileNotFound /\ AttView = "errorCard"

\* C16: on the teacher dashboard, whatever number of announcements the backend
\* returned, at most 5 announcement cards are rendered (the first 5 of the
\* returned list), and the "view all" affordance is rendered only when the
\* returned count is greater than 5.
C16_AtMostFiveCards ==
    /\ Len(AnnouncementCards) <= 5
    /\ AnnouncementCards # <<>> =>
          /\ announcementData # Null
          /\ \A i \in 1..Len(AnnouncementCards) :
                AnnouncementCards[i] = announcementData[1][i]
    /\ ViewAllShown => announcementData # Null /\ Len(announcementData[1]) > 5

C16_Witness ==
    /\ announcementData # Null /\ Len(announcementData[1]) = 6
    /\ Len(AnnouncementCards) = 5 /\ ViewAllShown

\* C17: on the admin registration page, an action result with success = true and
\* a non-empty message resets the form and raises a success toast carrying that
\* message; a result with success = false and a non-empty message raises a
\* destructive toast carrying that message and leaves the field contents unchanged.
C17_ResultToastAndForm ==
    [][ (regPending /\ ~regPending' /\ regState'.message # Null) =>
          IF regState'.success
          THEN /\ regToasts' = Append(regToasts, SuccessToast(regState'.message))
               /\ regFields' = RegDefaults
          ELSE /\ regToasts' = Append(regToasts, FailureToast(regState'.message))
               /\ regFields' = regFields ]_vars

\* both kinds of result have been received with filled-in fields
C17_Witness ==
    /\ Len(regToasts) = 2
    /\ regToasts[1].variant = "destructive" /\ regToasts[2].variant = "default"
    /\ regFormData # Null /\ regFormData[1] # RegDefaults
    /\ regFields = RegDefaults /\ regState.success

\* C18: in every form (admin login, student login, admin registration) the
\* submission is blocked while a field violates the form's schema: neither the
\* sign-in call nor registerAdminAction is ever invoked with values that fail it.
C18_NoInvocationWithInvalidValues ==
    /\ signInRequest # Null => LoginFieldErrors(signInRequest[1]) = {}
    /\ regFormData # Null => RegFieldErrors(regFormData[1]) = {}

\* C19: an unauthenticated student-portal caller is permitted by the access rules
\* to read the stored attendance entries of a student.
C19_PortalReadsAttendance ==
    (/\ lastReq # Null
     /\ ~lastReq[1].auth.authed
     /\ lastReq[1].coll = "attendanceEntries" /\ lastReq[1].op = "read"
     /\ lastOld # Null /\ lastOld[1].studentId \in StudentIds)
    => lastAllowed

\* the operations ruleset B reserves for isAdmin(): firestore.rules:223-225,
\* 244-246, 253-255, 262, 268
AdminReservedB ==
    {"students", "payments", "announcements", "feeStructure", "appSettings"}
        \X {"create", "update", "delete"}

\* C20: ruleset B's isAdmin() is strictly weaker than ruleset A's: a request that
\* satisfies A's satisfies B's, B's holds for every authenticated request whatever
\* its claims, and under ruleset B every authenticated caller is granted every
\* operation B reserves for admins.
C20_AnyAuthenticatedIsAdminUnderB ==
    lastReq # Null =>
        /\ isAdminA(lastReq[1]) => isAdminB(lastReq[1])
        /\ lastReq[1].auth.authed => isAdminB(lastReq[1])
        /\ (/\ rulesetLive = "B"
            /\ lastReq[1].auth.authed
            /\ <<lastReq[1].coll, lastReq[1].op>> \in AdminReservedB) => lastAllowed

\* strictly weaker: a caller without the admin claim is granted a reserved operation
C20_Witness ==
    /\ rulesetLive = "B" /\ lastReq # Null
    /\ isAdminB(lastReq[1]) /\ ~isAdminA(lastReq[1])
    /\ lastReq[1].auth.isAdmin = ClaimAbsent
    /\ <<lastReq[1].coll, lastReq[1].op>> = <<"payments", "delete">>
    /\ lastAllowed

\* C21: on the teacher dashboard, every backend error caught during a load while
\* the component is mounted is shown to the user: in the view rendered once
\* loading has finished, an error message is visible.
C21_CaughtErrorIsShown ==
    (dashPc = "done" /\ isMounted /\ caught # Null)
    => ErrorShown \/ AnnouncementsErrorShown

\* C22: under ruleset A, a caller that satisfies isAdmin() is permitted every
\* operation (create, read, update, delete) on every collection the ruleset covers.
C22_AdminIsPermittedEverything ==
    (rulesetLive = "A" /\ lastReq # Null /\ isAdminA(lastReq[1])) => lastAllowed

\* C23 as stated: on the student attendance page, when the student profile is
\* missing, the page settles in the "Student Not Found" card that carries a
\* login link.
C23_MissingProfileShowsNotFoundCard ==
    (ProfileDocMissing /\ attMounted)
    => AttView = "studentNotFound" /\ LoginLinkShown

\* C23 amended: when the student profile is missing, the mounted page settles in
\* the error card showing "Student profile not found. ...", which carries no
\* login link; the views are selected with the precedence loading > error >
\* profile missing > table, and a finished load on a mounted page never leaves
\* the "Student Not Found" card.
C23_MissingProfileShowsErrorCard ==
    /\ (ProfileDocMissing /\ attMounted)
       => /\ AttView = "errorCard"
          /\ attError = TextStudentProfileNotFound
          /\ ~LoginLinkShown
    /\ attIsLoading => AttView = "loading"
    /\ (~attIsLoading /\ attError # Null) => AttView = "errorCard"
    /\ (~attIsLoading /\ attError = Null /\ loggedInStudent = Null)
       => AttView = "studentNotFound"
    /\ (~attIsLoading /\ attError = Null /\ loggedInStudent # Null)
       => AttView = "history"
    /\ (attPc = "done" /\ attMounted) => AttView \in {"errorCard", "history"}

C23_Witness ==
    /\ ProfileDocMissing /\ attMounted /\ loggedInStudent = Null
    /\ AttView = "errorCard" /\ ~LoginLinkShown

ErrorCardCondition ==
    /\ error # Null
    /\ teacherProfile = Null \/ Includes(error, <<"profile", "could", "not", "be", "found">>)

\* C24: on the teacher dashboard, once loading has finished the rendered view is
\* a function of (error, profile): the error card when an error is set and the
\* profile is absent or the error contains "profile could not be found", with a
\* login link exactly when the error contains "Not authenticated"; otherwise the
\* "Profile Not Loaded" card with a login link when the profile is absent;
\* otherwise the full dashboard, also when only an announcements error exists.
C24_ViewIsFunctionOfErrorAndProfile ==
    ~isLoading =>
        /\ ErrorCardCondition
           => /\ View = "errorCard"
              /\ DashLoginLinkShown <=> Includes(error, <<"Not", "authenticated">>)
        /\ (~ErrorCardCondition /\ teacherProfile = Null)
           => View = "profileNotLoaded" /\ DashLoginLinkShown
        /\ (~ErrorCardCondition /\ teacherProfile # Null) => View = "dashboard"
        /\ (teacherProfile # Null /\ error = Null /\ announcementsError # Null)
           => View = "dashboard"

\* a finished load whose only failure is the announcements query
C24_Witness ==
    /\ dashPc = "done" /\ isMounted /\ ~isLoading
    /\ teacherProfile # Null /\ error = Null /\ announcementsError # Null
    /\ View = "dashboard" /\ ~DashLoginLinkShown

\* C25: on the teacher dashboard the backend requests of a load are issued
\* strictly one after another: a request is issued only when every request issued
\* before it has returned, so at most one request is in flight; the students
\* query follows the return of the profile lookup, the announcements query the
\* return of the profile lookup and, when the profile has assigned classes, of
\* the students query.
C25_RequestsAreSequential ==
    /\ [](/\ Len(issued) - Len(returned) \in {0, 1}
          /\ returned = SubSeq(issued, 1, Len(returned))
          /\ "students" \in Range(issued) => "teachers" \in Range(returned)
          /\ "school_announcements" \in Range(issued) =>
                /\ "teachers" \in Range(returned)
                /\ (/\ profileResult[1].data # Null
                    /\ Len(profileResult[1].data[1].assigned_classes) > 0)
                     => "students" \in Range(returned))
    /\ [][issued' # issued =>
             \E q \in {"teachers", "students", "school_announcements"} :
                 issued' = Append(issued, q) /\ returned' = issued]_vars

\* the three requests of one load, the last one in flight
C25_Witness ==
    /\ issued = <<"teachers", "students", "school_announcements">>
    /\ returned = <<"teachers", "students">>

\* C26: under ruleset A, the teacher whose uid equals the teacherId stored in a
\* timetableEntries document is permitted both to update it (keeping their
\* teacherId) and to delete it.
C26_OwnerTeacherUpdatesAndDeletes ==
    (/\ rulesetLive = "A"
     /\ lastReq # Null
     /\ lastReq[1].coll = "timetableEntries"
     /\ lastReq[1].op \in {"update", "delete"}
     /\ isTeacherA(lastReq[1])
     /\ lastOld # Null /\ lastOld[1].teacherId = lastReq[1].auth.uid
     /\ lastReq[1].op = "update" => lastReq[1].data.teacherId = lastReq[1].auth.uid)
    => lastAllowed

BrowserStorage == <<localStorage, teacherUidStored, studentIdStored>>

\* C27: StudentLoginForm.onSubmit leaves browser local storage unchanged on every
\* path, the successful one included: it never writes the student display id, so
\* an attendance page load that follows a successful student login from empty
\* local storage ends in the "Student not identified" error without any backend
\* call.
C27_StudentLoginWritesNoStorage ==
    /\ [][studentFormVars' # studentFormVars => BrowserStorage' = BrowserStorage]_vars
    /\ []((/\ studentPushed = Some("/student/dashboard")
           /\ localStorage = {} /\ studentIdStored = Null
           /\ attPc # "init")
          => /\ attPc = "done"
             /\ attError = TextNotIdentified
             /\ attIssued = <<>>)

C27_Witness ==
    /\ studentPushed = Some("/student/dashboard") /\ studentLookup # Null
    /\ localStorage = {} /\ studentIdStored = Null
    /\ attPc = "done" /\ attError = TextNotIdentified /\ attIssued = <<>>

StudentsReadA ==
    /\ rulesetLive = "A" /\ lastReq # Null
    /\ lastReq[1].coll = "students" /\ lastReq[1].op = "read"

\* the caller is a teacher whose assignedClasses contains the gradeLevel of the
\* students document that was read
TeacherOfReadGrade ==
    /\ lastReq[1].auth.authed
    /\ lastReq[1].auth.uid \in DOMAIN TeacherDocs
    /\ lastOld # Null
    /\ lastOld[1].gradeLevel \in TeacherDocs[lastReq[1].auth.uid].assignedClasses

\* C29: under ruleset A a read of a students document is permitted exactly when
\* the caller is unauthenticated, or is an admin, or is a teacher whose
\* assignedClasses contains the document's gradeLevel; an authenticated caller
\* who is neither is denied a read that the same request without authentication
\* is granted.
C29_StudentsReadExactly ==
    StudentsReadA =>
        /\ lastAllowed <=>
              \/ ~lastReq[1].auth.authed
              \/ lastReq[1].auth.authed /\ lastReq[1].auth.isAdmin = ClaimTrue
              \/ TeacherOfReadGrade
        /\ (~lastAllowed) => AllowA([lastReq[1] EXCEPT !.auth = NoAuth])

C29_Witness ==
    /\ StudentsReadA /\ lastOld # Null
    /\ lastReq[1].auth.authed /\ lastReq[1].auth.uid \in DOMAIN TeacherDocs
    /\ ~lastAllowed

\* the step in which AdminLoginForm.onSubmit ends on its success path
AdminSuccessStep ==
    /\ adminPc = "signIn" /\ adminPc' = "done"
    /\ adminData' # Null
    /\ adminData'[1].error = Null
    /\ adminData'[1].user # Null /\ adminData'[1].session

\* a step of AdminLoginForm.onSubmit that is not the end of its success path
AdminFailureStep ==
    /\ adminFormVars' # adminFormVars
    /\ ~AdminSuccessStep

\* C30: AdminLoginForm.onSubmit writes the admin-logged-in flag only on the
\* success path (no error, user and session present) and never removes it; on
\* every failure path the flag is unchanged, so a flag set by an earlier success
\* survives a later failed submit that signs the provider session out.
C30_AdminFlagOnlySetOnSuccess ==
    [][/\ (localStorage' # localStorage =>
              /\ AdminSuccessStep
              /\ localStorage' = localStorage \cup {ADMIN_LOGGED_IN_KEY})
       /\ (AdminSuccessStep => ADMIN_LOGGED_IN_KEY \in localStorage')
       /\ (ADMIN_LOGGED_IN_KEY \in localStorage => ADMIN_LOGGED_IN_KEY \in localStorage')
       /\ (AdminFailureStep => localStorage' = localStorage)]_vars

C30_Witness ==
    /\ ADMIN_LOGGED_IN_KEY \in localStorage
    /\ adminPc = "done" /\ adminLoginError # Null
    /\ adminSignedOut /\ providerSession = Null

====
